---- MODULE Spec2Model ----
(***************************************************************************)
(* Model of docs/js/custom.js: the iframe height synchronizer.             *)
(*                                                                         *)
(*   function resizeIframe(e) {                                            *)
(*       e.height = e.contentWindow.document.body.scrollHeight + 100; }    *)
(*   window.addEventListener("DOMContentLoaded", () => {                   *)
(*       const obs = new MutationObserver(() => {                          *)
(*           document.querySelectorAll("iframe").forEach((e) => {          *)
(*               resizeIframe(e);                                          *)
(*               e.contentWindow.addEventListener("DOMContentLoaded",      *)
(*                   () => resizeIframe(e), { passive: true }); }); });    *)
(*       obs.observe(document.body, {childList: true, subtree: true}); }); *)
(*                                                                         *)
(* The program's state is the part of the DOM it reads and writes: the     *)
(* iframe elements of the host document, each frame's inner body           *)
(* scrollHeight, each frame's height attribute, the listeners registered   *)
(* on each frame's inner window, the registered mutation observers and     *)
(* the observer's pending record queue.  Every step is one task of the     *)
(* host document's event loop.                                             *)
(***************************************************************************)
EXTENDS Integers, Sequences, FiniteSets

\* ---------------------------------------------------------------- bounds
\* Number of iframe elements the page ever holds.  Frames are numbered in
\* document order: querySelectorAll returns attached frames by ascending id.
NFrames == 2
\* Largest inner body scrollHeight.
MaxH == 1
\* Largest number of DOMContentLoaded listeners held by one inner window.
MaxListeners == 2

\* ------------------------------------------------------ program constants
\* custom.js:3, the margin added to the scroll height.
Margin == 100

Frames == 1..NFrames
Heights == 0..MaxH

VARIABLES
    parsed,     \* the host document's DOMContentLoaded has been dispatched
    observers,  \* number of MutationObservers observing document.body
    pending,    \* the observer's record queue is non-empty (a batch is due)
    attached,   \* the iframe elements connected under document.body
    accessible, \* frame -> its inner document is same-origin (readable)
    loaded,     \* frame -> its inner window's DOMContentLoaded has fired
    content,    \* frame -> e.contentWindow.document.body.scrollHeight
    height,     \* frame -> e.height, a DOMString (sequence of digits, "" unset)
    listeners,  \* frame -> DOMContentLoaded listeners on its inner window
    last,       \* kind of the task that produced this state
    log         \* calls made by that task, in order: <<op, frame>>

vars == <<parsed, observers, pending, attached, accessible, loaded, content,
          height, listeners, last, log>>

\* ------------------------------------------------------------ pure helpers
\* Number::toString of a non-negative integer: its decimal digits.
RECURSIVE ToString(_)
ToString(n) == IF n < 10 THEN <<n>> ELSE ToString(n \div 10) \o <<n % 10>>

\* ToNumber of a string of decimal digits ("" converts to 0).
RECURSIVE ToNumber(_)
ToNumber(s) ==
    IF s = << >> THEN 0
    ELSE 10 * ToNumber(SubSeq(s, 1, Len(s) - 1)) + s[Len(s)]

\* The height attribute of an element that never had it set: "".
Unset == << >>

\* The attached frames among i..NFrames, in document order.
RECURSIVE Ordered(_, _)
Ordered(S, i) ==
    IF i > NFrames THEN << >>
    ELSE (IF i \in S THEN <<i>> ELSE << >>) \o Ordered(S, i + 1)

\* A scan that skips the frames which already hold a listener.
QueryNewOnly == Ordered({f \in attached : listeners[f] = 0}, 1)

\* A scan over every frame element the page has held, attached or not.
QueryEverHeld == Ordered(Frames, 1)

\* document.querySelectorAll("iframe"): every attached frame, in document order.
querySelectorAll == Ordered(attached, 1)

\* e.contentWindow.document throws for a cross-origin inner document.
Throws(e) == ~accessible[e]

\* A resize that forgets the margin.
resizeNoMargin(hs, cs, e) == [hs EXCEPT ![e] = ToString(cs[e])]

\* A resize that grows the current height instead of replacing it.
resizeAccumulate(hs, cs, e) ==
    [hs EXCEPT ![e] = ToString(ToNumber(@) + cs[e] + 100)]

\* A resize that writes the same height to every frame.
resizeAll(hs, cs, e) == [g \in DOMAIN hs |-> ToString(cs[e] + 100)]

\* A resize that leaves alone a frame whose height was already written.
resizeOnce(hs, cs, e) ==
    IF hs[e] = << >> THEN [hs EXCEPT ![e] = ToString(cs[e] + 100)] ELSE hs

\* resizeIframe(e) on the height attributes hs, given the scroll heights cs:
\* the number scrollHeight + 100 is assigned to the DOMString e.height.
resizeIframe(hs, cs, e) == [hs EXCEPT ![e] = ToString(cs[e] + Margin)]

\* A registration that is dropped.
addNoListener(ls, e) == ls

\* e.contentWindow.addEventListener("DOMContentLoaded", () => resizeIframe(e)):
\* the arrow function is a new object on every call, so it is never a duplicate
\* of a listener already registered.
addEventListener(ls, e) == [ls EXCEPT ![e] = @ + 1]

\* A forEach whose callback registers the listener before it resizes.
RECURSIVE ForEachListenFirst(_, _)
ForEachListenFirst(s, st) ==
    IF s = << >> THEN st
    ELSE LET e == Head(s) IN
         IF Throws(e)
         THEN [st EXCEPT !.lg = Append(@, <<"throw", e, st.h[e]>>)]
         ELSE LET h1 == resizeIframe(st.h, content, e) IN
              ForEachListenFirst(Tail(s),
                      [h  |-> h1,
                       l  |-> addEventListener(st.l, e),
                       lg |-> st.lg \o << <<"listen", e, st.h[e]>>,
                                          <<"resize", e, h1[e]>> >>])

\* A forEach whose callback catches the exception and goes on to the next frame.
RECURSIVE ForEachCatch(_, _)
ForEachCatch(s, st) ==
    IF s = << >> THEN st
    ELSE LET e == Head(s) IN
         IF Throws(e)
         THEN ForEachCatch(Tail(s),
                           [st EXCEPT !.lg = Append(@, <<"throw", e, st.h[e]>>)])
         ELSE LET h1 == resizeIframe(st.h, content, e) IN
              ForEachCatch(Tail(s),
                           [h  |-> h1,
                            l  |-> addEventListener(st.l, e),
                            lg |-> st.lg \o << <<"resize", e, h1[e]>>,
                                               <<"listen", e, h1[e]>> >>])

\* forEach over the frames s: resize, then register; an exception thrown by
\* resizeIframe leaves forEach and the callback.
RECURSIVE ForEach(_, _)
ForEach(s, st) ==
    IF s = << >> THEN st
    ELSE LET e == Head(s) IN
         IF Throws(e)
         THEN [st EXCEPT !.lg = Append(@, <<"throw", e, st.h[e]>>)]
         ELSE LET h1 == resizeIframe(st.h, content, e) IN
              ForEach(Tail(s),
                      [h  |-> h1,
                       l  |-> addEventListener(st.l, e),
                       lg |-> st.lg \o << <<"resize", e, h1[e]>>,
                                          <<"listen", e, h1[e]>> >>])

\* The mutation callback, run once for each registered observer.
RECURSIVE Callbacks(_, _)
Callbacks(n, st) ==
    IF n = 0 THEN st ELSE Callbacks(n - 1, ForEach(querySelectorAll, st))

\* Listeners that do nothing when the event is dispatched.
RunNoListeners(n, st, cs, e) == st

\* The n listeners () => resizeIframe(e) of frame e's inner window, run one
\* after another; cs are the scroll heights at the time of the event.
RECURSIVE RunListeners(_, _, _, _)
RunListeners(n, st, cs, e) ==
    IF n = 0 THEN st
    ELSE IF Throws(e)
         THEN RunListeners(n - 1,
                           [st EXCEPT !.lg = Append(@, <<"throw", e, st.h[e]>>)],
                           cs, e)
         ELSE LET h1 == resizeIframe(st.h, cs, e) IN
              RunListeners(n - 1,
                           [st EXCEPT !.h = h1,
                                      !.lg = Append(@, <<"resize", e, h1[e]>>)],
                           cs, e)

\* A handler that resizes the frame whenever its inner document re-lays out.
ResizeOnContentChange(hs, cs, f) == resizeIframe(hs, cs, f)

\* The program's reaction to a re-layout of f's inner document: it registers
\* no handler for it (the only inner event it listens to is DOMContentLoaded).
OnContentChange(hs, cs, f) == hs

\* Positions in the log of the task that just ran.
Entries(op, f) == {i \in 1..Len(log) : log[i][1] = op /\ log[i][2] = f}
\* Number of completed resizeIframe(f) calls in the task that just ran.
Calls(f) == Cardinality(Entries("resize", f))
\* Number of listener registrations on f in the task that just ran.
Listens(f) == Cardinality(Entries("listen", f))
\* resizeIframe(f) was called in the task that just ran (it may have thrown).
Invoked(f) == Entries("resize", f) \cup Entries("throw", f) # {}

\* ------------------------------------------------------------------- Init
\* The script has been evaluated and has registered its window listener; the
\* parser has built any part of the page, and frames already in it may have
\* loaded.  No height attribute has been written by the program.  A frame is
\* same-origin or cross-origin for good.
Init ==
    /\ parsed = FALSE
    /\ observers = 0
    /\ pending = FALSE
    /\ attached \in SUBSET Frames
    /\ accessible \in [Frames -> BOOLEAN]
    /\ loaded \in [Frames -> BOOLEAN]
    /\ content \in [Frames -> Heights]
    /\ \A f \in Frames : f \notin attached => ~loaded[f]
    /\ \A f \in Frames : ~loaded[f] => content[f] = 0
    /\ height = [f \in Frames |-> Unset]
    /\ listeners = [f \in Frames |-> 0]
    /\ last = <<"script", 0>>
    /\ log = << >>

\* ---------------------------------------------------------------- actions
\* The window's DOMContentLoaded listener.  The platform dispatches the event
\* once; the handler creates the observer and registers it on document.body.
\* It scans nothing itself.
Initialize ==
    /\ ~parsed
    /\ parsed' = TRUE
    /\ observers' = observers + 1
    /\ last' = <<"init", 0>>
    /\ log' = << >>
    /\ UNCHANGED <<pending, attached, accessible, loaded, content, height, listeners>>

\* Options that also ask for attribute and character-data records.
ObservedAll == {"childList", "attributes", "characterData"}

\* The mutation types obs.observe asks for: {childList: true, subtree: true}
\* names neither attributes nor characterData, so only child-list changes
\* anywhere under document.body are recorded.
Observed == {"childList"}

\* A mutation of this type under document.body queues a record.
Records(type) == observers > 0 /\ type \in Observed

\* The record queue after a child-list change under document.body.
Queued == pending \/ Records("childList")

\* A queue on which the height writes of resizeIframe leave a record.
AfterWritesObserved(q, lg) ==
    q \/ (observers > 0 /\ \E i \in 1..Len(lg) : lg[i][1] = "resize")

\* The record queue after a task that made the calls lg: each completed
\* resizeIframe wrote an iframe's height attribute, an attribute mutation
\* under document.body.
AfterWrites(q, lg) ==
    q \/ (Records("attributes") /\ \E i \in 1..Len(lg) : lg[i][1] = "resize")

\* A script or the parser connects frame f.  Its inner window is new.
InsertFrame(f) ==
    /\ f \notin attached
    /\ attached' = attached \cup {f}
    /\ pending' = Queued
    /\ last' = <<"insert", f>>
    /\ log' = << >>
    /\ UNCHANGED <<parsed, observers, accessible, loaded, content, height, listeners>>

\* A script disconnects frame f: its inner window and its listeners are
\* discarded; the element keeps its height attribute.
RemoveFrame(f) ==
    /\ f \in attached
    /\ attached' = attached \ {f}
    /\ loaded' = [loaded EXCEPT ![f] = FALSE]
    /\ content' = [content EXCEPT ![f] = 0]
    /\ listeners' = [listeners EXCEPT ![f] = 0]
    /\ pending' = Queued
    /\ last' = <<"remove", f>>
    /\ log' = << >>
    /\ UNCHANGED <<parsed, observers, accessible, height>>

\* A node that is not an iframe is added or removed under document.body.
OtherChildList ==
    /\ pending' = Queued
    /\ last' = <<"other", 0>>
    /\ log' = << >>
    /\ UNCHANGED <<parsed, observers, attached, accessible, loaded, content,
                   height, listeners>>

\* A script changes an attribute ("attributes") or the text of a text node
\* ("characterData") somewhere under document.body.
HostChange(type) ==
    /\ type \in {"attributes", "characterData"}
    /\ pending' = (pending \/ Records(type))
    /\ last' = <<type, 0>>
    /\ log' = << >>
    /\ UNCHANGED <<parsed, observers, attached, accessible, loaded, content,
                   height, listeners>>

\* The parsed inner document of f re-lays out: its body scrollHeight becomes
\* h.  (A document still being parsed has no laid-out body: scrollHeight 0.)
ContentChange(f, h) ==
    /\ f \in attached
    /\ loaded[f]
    /\ h # content[f]
    /\ content' = [content EXCEPT ![f] = h]
    /\ height' = OnContentChange(height, content', f)
    /\ last' = <<"content", f>>
    /\ log' = << >>
    /\ UNCHANGED <<parsed, observers, pending, attached, accessible, loaded,
                   listeners>>

\* A callback that stops observing after its first batch.
MutationCallbackOnce ==
    /\ pending
    /\ observers > 0
    /\ \A f \in attached : listeners[f] + observers <= MaxListeners
    /\ LET st == Callbacks(observers, [h |-> height, l |-> listeners, lg |-> << >>])
       IN /\ height' = st.h
          /\ listeners' = st.l
          /\ log' = st.lg
          /\ pending' = AfterWrites(FALSE, st.lg)
    /\ observers' = 0
    /\ last' = <<"batch", 0>>
    /\ UNCHANGED <<parsed, attached, accessible, loaded, content>>

\* The observer's callback on a mutation batch: one microtask, which empties
\* the record queue and rescans the document.
MutationCallback ==
    /\ pending
    /\ observers > 0
    /\ \A f \in attached : listeners[f] + observers <= MaxListeners
    /\ LET st == Callbacks(observers, [h |-> height, l |-> listeners, lg |-> << >>])
       IN /\ height' = st.h
          /\ listeners' = st.l
          /\ log' = st.lg
          /\ pending' = AfterWrites(FALSE, st.lg)
    /\ last' = <<"batch", 0>>
    /\ UNCHANGED <<parsed, observers, attached, accessible, loaded, content>>

\* The inner document of f finishes parsing with scroll height h, and
\* DOMContentLoaded is dispatched to the listeners on its window.  It is a
\* task of its own: a queued mutation batch (a microtask) is delivered first.
FrameLoaded(f, h) ==
    /\ f \in attached
    /\ ~loaded[f]
    /\ ~pending
    /\ loaded' = [loaded EXCEPT ![f] = TRUE]
    /\ content' = [content EXCEPT ![f] = h]
    /\ LET st == RunListeners(listeners[f],
                              [h |-> height, l |-> listeners, lg |-> << >>],
                              content', f)
       IN /\ height' = st.h
          /\ log' = st.lg
          /\ pending' = AfterWrites(pending, st.lg)
    /\ last' = <<"load", f>>
    /\ UNCHANGED <<parsed, observers, attached, accessible, listeners>>

Next ==
    \/ Initialize
    \/ \E f \in Frames : InsertFrame(f)
    \/ \E f \in Frames : RemoveFrame(f)
    \/ OtherChildList
    \/ \E type \in {"attributes", "characterData"} : HostChange(type)
    \/ \E f \in Frames, h \in Heights : ContentChange(f, h)
    \/ MutationCallback
    \/ \E f \in Frames, h \in Heights : FrameLoaded(f, h)

Spec == Init /\ [][Next]_vars

\* ================================================================ claims
\* A frame is synchronized: its height attribute is the decimal string of
\* its inner scroll height plus 100.
Synchronized(f) == height[f] = ToString(content[f] + 100)

\* The attached frames the scan reaches: no frame at or before it throws.
Reached(S, f) == f \in S /\ \A g \in S : g <= f => accessible[g]

\* C1: every resizeIframe(f) call that completes in a task writes the decimal
\* string of H + 100, H being f's inner scroll height, and that string is f's
\* height when the task ends; read back as a number it is H + 100.
C1_ResizeSetsHeight ==
    \A i \in 1..Len(log) :
        log[i][1] = "resize" =>
            LET f == log[i][2] IN
            /\ accessible[f]
            /\ log[i][3] = ToString(content[f] + 100)
            /\ ToNumber(log[i][3]) = content[f] + 100
            /\ height[f] = log[i][3]

C1_Witness ==
    \E f \in Frames : Calls(f) > 0 /\ content[f] = 1 /\ height[f] = <<1, 0, 1>>

\* C2: right after initialization every accessible frame that was already
\* attached is synchronized (an initial scan has resized it).
C2_InitialScan ==
    last[1] = "init" =>
        \A f \in attached : accessible[f] => Synchronized(f)

\* C3: no inner window ever holds more than one load listener, and a load
\* event of a frame with a listener runs resizeIframe on it exactly once.
C3_OneListener ==
    \A f \in Frames :
        /\ listeners[f] <= 1
        /\ (last = <<"load", f>> /\ listeners[f] >= 1 => Calls(f) = 1)

\* C4 as claimed: a batch delivered right after the insertion of a same-origin
\* frame f invokes resizeIframe(f), whatever else is attached; and the load
\* event of a frame holding a listener resizes it again.
C4_InsertedResized ==
    [][\A f \in Frames :
         /\ (accessible[f] /\ last = <<"insert", f>> /\ last'[1] = "batch"
                => Invoked(f)')
         /\ (~loaded[f] /\ loaded'[f] /\ listeners[f] >= 1 => Calls(f)' >= 1)]_vars

\* C4 as amended: a batch resizes every attached frame that the scan reaches
\* (it and the attached frames before it in document order are accessible),
\* newly inserted or not, and leaves a load listener on it; the load event of
\* a frame holding a listener resizes it again.
C4_ReachedResized ==
    [][\A f \in Frames :
         /\ (last'[1] = "batch" /\ Reached(attached', f)
                => Calls(f)' >= 1 /\ Listens(f)' >= 1 /\ listeners'[f] >= 1)
         /\ (~loaded[f] /\ loaded'[f] /\ listeners[f] >= 1 => Calls(f)' >= 1)]_vars

C4_Witness ==
    \E f \in Frames :
        /\ parsed
        /\ last = <<"load", f>>
        /\ Calls(f) >= 1
        /\ Synchronized(f)

\* C5: two resizeIframe calls on the same frame in one task (nothing changes
\* the inner content between them) write the same height.
C5_Idempotent ==
    \A i, j \in 1..Len(log) :
        (i < j /\ log[i][1] = "resize" /\ log[j][1] = "resize"
               /\ log[i][2] = log[j][2])
            => log[i][3] = log[j][3] /\ height[log[j][2]] = log[j][3]

C5_Witness ==
    \E f \in Frames : last = <<"load", f>> /\ Calls(f) >= 2 /\ content[f] = 1

\* C6: a task changes the height of no frame it did not resize, and the value
\* a resize writes to f is the same whatever the other frames' scroll heights.
C6_FrameEffect ==
    [][/\ \A g \in Frames : Calls(g)' = 0 => height'[g] = height[g]
       /\ \A i \in 1..Len(log') :
            log'[i][1] = "resize" =>
                \A cs \in [Frames -> Heights] :
                    cs[log'[i][2]] = content'[log'[i][2]] =>
                        resizeIframe(height, cs, log'[i][2])[log'[i][2]] = log'[i][3]
      ]_vars

C6_Witness ==
    \E f, g \in Frames :
        /\ f # g
        /\ g \in attached
        /\ last = <<"load", f>>
        /\ Calls(f) >= 1
        /\ Calls(g) = 0
        /\ height[g] # Unset
        /\ content[g] # content[f]
        /\ height[g] # height[f]

\* C7: a task that is neither a mutation batch nor the load event of f runs
\* no resize on f and leaves f's height as it was; so when f's inner scroll
\* height changes in such a task a synchronized f becomes stale.
C7_StaleWithoutEvent ==
    [][\A f \in Frames :
         (last'[1] # "batch" /\ last' # <<"load", f>>) =>
            /\ ~Invoked(f)'
            /\ height'[f] = height[f]
            /\ (f \in attached' /\ content'[f] # content[f] /\ Synchronized(f)
                    => ~Synchronized(f)')]_vars

C7_Witness ==
    \E f \in Frames :
        /\ last = <<"content", f>>
        /\ height[f] = <<1, 0, 0>>
        /\ content[f] = 1

\* C8: a frame resized while its inner document is empty or not yet parsed has
\* the height "100"; while it waits for its load event (a listener is on its
\* window) the height stays "100"; and the load event resizes it to the loaded
\* scroll height + 100.
C8_TransientCorrected ==
    /\ [](\A f \in Frames :
            /\ (Calls(f) > 0 /\ content[f] = 0 => height[f] = <<1, 0, 0>>)
            /\ (f \in attached /\ ~loaded[f] /\ listeners[f] >= 1
                    => height[f] = <<1, 0, 0>>))
    /\ [][\A f \in Frames :
            (~loaded[f] /\ loaded'[f] /\ listeners[f] >= 1)
                => Calls(f)' >= 1 /\ height'[f] = ToString(content'[f] + 100)]_vars

C8_Witness ==
    \E f \in Frames :
        /\ last = <<"load", f>>
        /\ Calls(f) >= 1
        /\ content[f] = 1
        /\ height[f] = <<1, 0, 1>>

C10_OneObserverForever ==
    /\ [](/\ observers <= 1
          /\ (observers >= 1 => parsed)
          /\ (~parsed => log = << >> /\ \A f \in Frames : height[f] = Unset))
    /\ [][/\ observers >= 1 => observers' = observers
          /\ (observers >= 1 /\ last'[1] \in {"insert", "remove", "other"})
                => pending']_vars

C10_Witness ==
    \E f \in Frames :
        /\ observers = 1
        /\ pending
        /\ last = <<"insert", f>>
        /\ \E g \in Frames : listeners[g] >= 2

\* C11: only child-list changes queue a record: an attribute or text change in
\* the host document leaves the record queue as it was and runs no resize and
\* no registration, the queue only ever fills in a child-list task, and a
\* batch is only delivered from a filled queue.
C11_OnlyChildList ==
    [][/\ (last'[1] \in {"attributes", "characterData"}
            => /\ pending' = pending
               /\ log' = << >>
               /\ height' = height
               /\ listeners' = listeners)
       /\ (~pending /\ pending' => last'[1] \in {"insert", "remove", "other"})
       /\ (last'[1] = "batch" => pending)]_vars

C11_Witness ==
    \E f \in attached :
        /\ last[1] = "attributes"
        /\ observers = 1
        /\ ~pending
        /\ accessible[f]
        /\ height[f] = <<1, 0, 0>>
        /\ content[f] = 1

\* C12: the height writes of a task queue no record: a batch leaves the queue
\* empty and itself disabled, a load event leaves the queue as it was, and one
\* batch resizes each frame at most once; so with no further external event
\* at most one batch runs and the program is quiescent.
C12_NoSelfTrigger ==
    /\ [](~pending => ~(ENABLED MutationCallback))
    /\ [][/\ (last'[1] = "batch"
                => /\ ~pending'
                   /\ Len(log') <= 2 * Cardinality(attached)
                   /\ \A f \in Frames : Calls(f)' <= 1)
          /\ (last'[1] = "load" => pending' = pending)]_vars

C12_Witness ==
    \E f, g \in attached :
        /\ f # g
        /\ last[1] = "batch"
        /\ ~pending
        /\ Calls(f) = 1 /\ Calls(g) = 1
        /\ listeners[f] >= 2

\* The first attached frame, in document order, whose height read fails.
FirstThrower(S, f) ==
    f \in S /\ ~accessible[f] /\ \A g \in S : g < f => accessible[g]

\* C13: in a batch the first attached frame whose inner document is
\* inaccessible makes resizeIframe throw, uncaught: the throw is the last
\* thing the batch does, that frame keeps its height and gets no listener, no
\* frame after it is resized or given a listener, and the frames before it
\* were resized and given a listener.
C13_ThrowEndsScan ==
    [][last'[1] = "batch" =>
         \A f \in Frames :
            FirstThrower(attached', f) =>
                /\ log' # << >>
                /\ log'[Len(log')] = <<"throw", f, height[f]>>
                /\ Calls(f)' = 0 /\ Listens(f)' = 0
                /\ height'[f] = height[f]
                /\ listeners'[f] = listeners[f]
                /\ \A g \in Frames :
                     /\ (g > f => /\ ~Invoked(g)'
                                  /\ Listens(g)' = 0
                                  /\ height'[g] = height[g]
                                  /\ listeners'[g] = listeners[g])
                     /\ (g < f /\ g \in attached'
                            => Calls(g)' = 1 /\ Listens(g)' = 1)]_vars

C13_Witness ==
    \E f, g \in attached :
        /\ f < g
        /\ last[1] = "batch"
        /\ ~accessible[f]
        /\ accessible[g]
        /\ log = << <<"throw", f, Unset>> >>
        /\ loaded[g]
        /\ content[g] = 1
        /\ height[g] = Unset
        /\ listeners[g] = 0

\* C14: a frame's height is "" or the decimal string of c + 100 for a scroll
\* height c; a task that completes a resize of f leaves height[f] at f's
\* scroll height + 100, and a task that completes none leaves height[f] as it
\* was.  So the height is always that of the most recent resize.
C14_HeightFromLastResize ==
    /\ [](\A f \in Frames :
            height[f] = Unset \/ \E c \in Heights : height[f] = ToString(c + 100))
    /\ [][\A f \in Frames :
            /\ (Calls(f)' >= 1 => height'[f] = ToString(content'[f] + 100))
            /\ (Calls(f)' = 0 => height'[f] = height[f])]_vars

C14_Witness ==
    \E f \in Frames :
        /\ last = <<"remove", f>>
        /\ f \notin attached
        /\ height[f] = <<1, 0, 1>>
        /\ content[f] = 0

\* C15 as claimed: the batch that follows the removal of f does not call
\* resizeIframe(f) and resizes every frame that is still attached.
C15_RemainingResized ==
    [][\A f \in Frames :
         (last = <<"remove", f>> /\ last'[1] = "batch") =>
            /\ ~Invoked(f)'
            /\ \A g \in attached' : Calls(g)' >= 1]_vars

\* C15 as amended: a batch calls resizeIframe on no detached frame and
\* registers nothing on it; the batch that follows the removal of f leaves f's
\* height alone and resizes every attached frame the scan reaches (those not
\* at or after an inaccessible attached frame).
C15_OnlyAttached ==
    /\ [](last[1] = "batch" =>
            \A f \in Frames \ attached : ~Invoked(f) /\ Listens(f) = 0)
    /\ [][\A f \in Frames :
            (last = <<"remove", f>> /\ last'[1] = "batch") =>
                /\ ~Invoked(f)'
                /\ height'[f] = height[f]
                /\ listeners'[f] = 0
                /\ \A g \in Frames : Reached(attached', g) => Calls(g)' = 1]_vars

C15_Witness ==
    \E f, g \in Frames :
        /\ last[1] = "batch"
        /\ f \notin attached
        /\ height[f] = <<1, 0, 1>>
        /\ g \in attached
        /\ Calls(g) = 1
        /\ listeners[g] >= 2
        /\ ~Invoked(f)

\* C16: a batch is one task: it changes no frame's attachment, load state or
\* scroll height; its calls are, for each scanned frame in document order,
\* resizeIframe(e) immediately followed by the registration on e, with a throw
\* only as the last call; no other resize is among them.
C16_BatchAtomicOrdered ==
    /\ [](last[1] = "batch" =>
            \A i \in 1..Len(log) :
                /\ log[i][2] \in attached
                /\ (log[i][1] = "resize" =>
                        /\ i < Len(log)
                        /\ log[i + 1] = <<"listen", log[i][2], log[i][3]>>)
                /\ (log[i][1] = "listen" =>
                        /\ i > 1
                        /\ log[i - 1] = <<"resize", log[i][2], log[i][3]>>)
                /\ (log[i][1] = "throw" => i = Len(log))
                /\ \A j \in 1..Len(log) :
                        /\ (j > i => log[i][2] <= log[j][2])
                        /\ (j > i + 1 => log[i][2] < log[j][2]))
    /\ [][last'[1] = "batch" =>
            /\ attached' = attached
            /\ loaded' = loaded
            /\ content' = content
            /\ \A f \in Frames : Calls(f)' <= 1]_vars

C16_Witness ==
    /\ last[1] = "batch"
    /\ attached = {1, 2}
    /\ Len(log) = 4
    /\ log[1][1] = "resize" /\ log[1][2] = 1
    /\ log[2][1] = "listen" /\ log[2][2] = 1
    /\ log[3][1] = "resize" /\ log[3][2] = 2
    /\ log[4][1] = "listen" /\ log[4][2] = 2
    /\ ~loaded[1]
    /\ listeners[1] >= 2

====
